---- MODULE Spec2Model ----
(***************************************************************************)
(* The AgentWatch dashboard (src/dashboard/AgentWatchDashboard.jsx) as a   *)
(* state machine: the React state of the root component, its refs, the     *)
(* pending timers and requests, and one action per event handler.          *)
(*                                                                         *)
(* Strings are JavaScript strings.  A field that is absent on the wire     *)
(* (undefined) is written Absent; like undefined it is falsy for `||` and  *)
(* prints as "undefined" inside a template literal.                        *)
(***************************************************************************)
EXTENDS Integers, Sequences, FiniteSets, TLC

VARIABLES
  agents,        \* useState([])        : the agent registry, a list
  logs,          \* useState([])        : the decision buffer, newest first
  stats,         \* useState(null)      : <<>> is null, <<s>> a stats object
  connected,     \* useState(false)
  mockMode,      \* useState(false)
  haltedAgents,  \* useState(new Set()) : halted ids used for display
  wsConnected,   \* useState(false)
  localHalted,   \* useRef(new Set())   : the local halt override set
  seenIds,       \* useRef(new Set())   : identities seen this session
  timers,        \* pending setTimeout(..., 1000) callbacks that clear isNew
  boot,          \* position of bootstrap(): "pending" or "done"
  ws,            \* the push channel: "connecting", "open" or "closed"
  polls,         \* fallback poll requests in flight
  selectedAgent, \* useState(null)      : Absent is null
  agentGraph,    \* useState(null)      : <<>> is null, <<g>> a graph object
  graphReqs,     \* /agent/{id}/graph requests in flight
  render,        \* position of ReasoningGraph's classification loop
  posts,         \* halt and resume POSTs in flight
  hist           \* history of the run (not program state), see Note

vars == <<agents, logs, stats, connected, mockMode, haltedAgents, wsConnected,
          localHalted, seenIds, timers, boot, ws, polls,
          selectedAgent, agentGraph, graphReqs, render, posts, hist>>

\* the state of the reasoning panel
panel == <<selectedAgent, agentGraph, graphReqs, render>>

(***************************************************************************)
(* Bounds of the model and constants of the program.                       *)
(***************************************************************************)
LogCap == 100          \* .slice(0, 100)
WarnThreshold == 2     \* a.halt_count > 2
MockLogCount == 22     \* generateMockLogs: for (i = 0; i < 22; i++)
MainSlice == 6         \* agentGraph.nodes.slice(0, 6)
LaneCap == 3           \* steps.slice(0, 3)
chainSpacing == 75     \* const chainSpacing = 75
nodeSpacing == 45      \* const nodeSpacing = 45

MaxPolls == 1          \* poll requests in flight at once
MaxManual == 1         \* manual-override entries in the buffer at once
MaxMock == 1           \* demo entries on top of the generated list
MaxPosts == 1          \* halt and resume POSTs in flight at once
MaxHalts == 2          \* presses of the stop button in SpecHalt
MaxGraphReqs == 2      \* graph requests in flight at once
MaxLane == 4           \* nodes of one agent in a graph response
MaxLinks == 2          \* influences in a graph response
MaxEdges == 3          \* influences in a response of SpecClassify
CapFeed == 150         \* unique decisions the backend emits in SpecCap

Absent == ""

\* ReasoningGraph is not in its classification loop and has rendered nothing
RenderIdle ==
  [pc |-> "idle", i |-> 0, upstream |-> <<>>, downstream |-> <<>>,
   selectedAgent |-> Absent, agentGraph |-> <<>>]

(***************************************************************************)
(* Sequence helpers standing for Array.prototype methods.                  *)
(***************************************************************************)
Min(a, b) == IF a < b THEN a ELSE b

\* arr.slice(0, n)
Slice0(s, n) == SubSeq(s, 1, Min(Len(s), n))

RECURSIVE SumOver(_, _)
\* Object.values(m) summed
SumOver(m, keys) ==
  IF keys = {} THEN 0
  ELSE LET k == CHOOSE x \in keys : TRUE
       IN  m[k] + SumOver(m, keys \ {k})

\* `${x}` for a value that may be undefined
Tpl(x) == IF x = Absent THEN "undefined" ELSE x

\* d.id || `${d.agent_id}-${d.step_id}`
Uid(d) == IF d.id # Absent THEN d.id ELSE Tpl(d.agent_id) \o "-" \o Tpl(d.step_id)

\* { ...d, isNew: flag }
WithNew(d, flag) ==
  [id |-> d.id, agent_id |-> d.agent_id, step_id |-> d.step_id,
   decision |-> d.decision, reason |-> d.reason, isNew |-> flag]

UidSet(batch) == {Uid(batch[i]) : i \in DOMAIN batch}

\* number of buffer entries whose identity is u
Occ(buf, u) == Cardinality({i \in DOMAIN buf : Uid(buf[i]) = u})

(***************************************************************************)
(* The agent registry.                                                     *)
(***************************************************************************)
\* localHalted.has(id) ? "HALTED" : (halt_count > 2 ? "WARNING" : "RUNNING")
DerivedStatus(halted, id, halt_count) ==
  IF id \in halted THEN "HALTED"
  ELSE IF halt_count > WarnThreshold THEN "WARNING" ELSE "RUNNING"

\* (agentsData.agents || []).map(a => ({...a, name, status, lastDecision}))
\* (name is AGENT_NAMES[id] || id, a display string no handler reads)
mergeAgents(backendAgents, halted) ==
  [i \in DOMAIN backendAgents |->
     LET a == backendAgents[i]
     IN  [agent_id |-> a.agent_id,
          total_steps |-> a.total_steps,
          halt_count |-> a.halt_count,
          status |-> DerivedStatus(halted, a.agent_id, a.halt_count),
          lastDecision |-> IF a.halt_count > 0 THEN "HALT" ELSE "PROCEED"]]

AgentIdsOf(reg) == {reg[i].agent_id : i \in DOMAIN reg}

\* a variant that counts every decision as a halt
agentsOnDecision_alwaysHalt(prev, decision) ==
  IF \E i \in DOMAIN prev : prev[i].agent_id = decision.agent_id
  THEN [i \in DOMAIN prev |->
          IF prev[i].agent_id = decision.agent_id
          THEN [prev[i] EXCEPT
                  !.total_steps = @ + 1,
                  !.halt_count = @ + 1,
                  !.lastDecision = decision.decision]
          ELSE prev[i]]
  ELSE Append(prev,
         [agent_id |-> decision.agent_id,
          total_steps |-> 1,
          halt_count |-> 1,
          status |-> "RUNNING",
          lastDecision |-> decision.decision])

\* setAgents(prev => ...) of ws.onmessage, type "decision"
agentsOnDecision(prev, decision) ==
  IF \E i \in DOMAIN prev : prev[i].agent_id = decision.agent_id
  THEN [i \in DOMAIN prev |->
          IF prev[i].agent_id = decision.agent_id
          THEN [prev[i] EXCEPT
                  !.total_steps = @ + 1,
                  !.halt_count = IF decision.decision = "HALT" THEN @ + 1 ELSE @,
                  !.lastDecision = decision.decision]
          ELSE prev[i]]
  ELSE Append(prev,
         [agent_id |-> decision.agent_id,
          total_steps |-> 1,
          halt_count |-> IF decision.decision = "HALT" THEN 1 ELSE 0,
          status |-> "RUNNING",
          lastDecision |-> decision.decision])

(***************************************************************************)
(* Stats.                                                                  *)
(***************************************************************************)
EmptyMap == [r \in {} |-> 0]

ZeroStats ==
  [total_steps |-> 0, halt_count |-> 0, proceed_count |-> 0,
   violations_by_type |-> EmptyMap]

\* m[k] || 0
Get0(m, k) == IF k \in DOMAIN m THEN m[k] ELSE 0

\* decision.reason || "UNKNOWN"
ReasonOf(decision) == IF decision.reason # Absent THEN decision.reason ELSE "UNKNOWN"

\* a variant that counts a proceed only for the PROCEED verdict
statsOnDecision_onlyProceed(prev, decision) ==
  LET p == IF prev = <<>> THEN ZeroStats ELSE prev[1]
      reason == ReasonOf(decision)
  IN  IF decision.decision = "HALT"
      THEN <<[p EXCEPT
                !.total_steps = @ + 1,
                !.halt_count = @ + 1,
                !.violations_by_type =
                   [r \in DOMAIN @ \cup {reason} |->
                      IF r = reason THEN Get0(@, r) + 1 ELSE @[r]]]>>
      ELSE IF decision.decision = "PROCEED"
      THEN <<[p EXCEPT !.total_steps = @ + 1, !.proceed_count = @ + 1]>>
      ELSE <<[p EXCEPT !.total_steps = @ + 1]>>

\* setStats(prev => ...) of ws.onmessage, type "decision"
statsOnDecision(prev, decision) ==
  LET p == IF prev = <<>> THEN ZeroStats ELSE prev[1]
      reason == ReasonOf(decision)
  IN  IF decision.decision = "HALT"
      THEN <<[p EXCEPT
                !.total_steps = @ + 1,
                !.halt_count = @ + 1,
                !.violations_by_type =
                   [r \in DOMAIN @ \cup {reason} |->
                      IF r = reason THEN Get0(@, r) + 1 ELSE @[r]]]>>
      ELSE <<[p EXCEPT !.total_steps = @ + 1, !.proceed_count = @ + 1]>>

(***************************************************************************)
(* The decision buffer.                                                    *)
(***************************************************************************)
\* a variant that admits the whole batch, seen or not
pollNewEntries_noFilter(batch, seen) ==
  [i \in DOMAIN batch |-> WithNew(batch[i], TRUE)]

\* (recentData.decisions || []).filter(d => !seenIds.has(uid))
\*                             .map(d => { seenIds.add(uid); return {...d, isNew: true} })
\* the filter runs over the whole batch before the map adds anything
pollNewEntries(batch, seen) ==
  LET fresh == SelectSeq(batch, LAMBDA d : Uid(d) \notin seen)
  IN  [i \in DOMAIN fresh |-> WithNew(fresh[i], TRUE)]

\* [...newEntries, ...prev].slice(0, 100)
pollLogs(newEntries, prev) == Slice0(newEntries \o prev, LogCap)

\* a variant that never truncates
pushLogs_noSlice(decision, prev) == <<WithNew(decision, TRUE)>> \o prev

\* [{ ...decision, isNew: true }, ...prev].slice(0, 100)
pushLogs(decision, prev) == Slice0(<<WithNew(decision, TRUE)>> \o prev, LogCap)

\* l.map(e => ids matches e.id ? { ...e, isNew: false } : e)
expireNew(buf, ids) ==
  [i \in DOMAIN buf |->
     IF buf[i].id \in ids THEN [buf[i] EXCEPT !.isNew = FALSE] ELSE buf[i]]

\* the ids a poll timer matches: newEntries.some(n => n.id === e.id)
pollTimerIds(newEntries) == {newEntries[i].id : i \in DOMAIN newEntries}

\* a variant of the push timer that matches the identity alone
pushTimerIds_uidOnly(decision) == {Uid(decision)}

\* the ids a push timer matches: e.id === uid || e.id === decision.id
pushTimerIds(decision) == {Uid(decision), decision.id}

\* a pending setTimeout callback: the identities of the entries it was set
\* for (what its closure holds) and the ids its map() matches
Timer(owners, ids) == [owners |-> owners, ids |-> ids]

(***************************************************************************)
(* History of the run, kept for stating properties; no handler reads it.   *)
(*   op         the handler that ran last                                  *)
(*   uids       the identities of the last delivery (push, poll, snapshot) *)
(*   rep        the last delivery carried the identities of the one before *)
(*   userHalted agents halted with handleStop whose override is not yet    *)
(*              cleared by handleResume, a "resumed" message or reset      *)
(*   admitted   identities admitted from push or poll since the last reset *)
(***************************************************************************)
Delivered(op, uids, fresh) ==
  hist' = [hist EXCEPT
             !.op = op, !.uids = uids,
             !.rep = (uids # {} /\ uids = hist.uids),
             !.admitted = IF op = "bootstrap" THEN @ ELSE @ \cup fresh]

Did(op) == hist' = [hist EXCEPT !.op = op, !.rep = FALSE]

(***************************************************************************)
(* Demo data.                                                              *)
(***************************************************************************)
MockAgent(id, st, hc, ts) ==
  [agent_id |-> id, total_steps |-> ts, halt_count |-> hc, status |-> st,
   lastDecision |-> Absent]

MOCK_AGENTS ==
  << MockAgent("agent-001", "RUNNING", 0, 12), MockAgent("agent-002", "HALTED", 3, 8),
     MockAgent("agent-003", "RUNNING", 1, 20), MockAgent("agent-004", "RUNNING", 0, 15),
     MockAgent("agent-005", "RUNNING", 0, 30), MockAgent("agent-006", "RUNNING", 2, 18),
     MockAgent("agent-007", "HALTED", 5, 10), MockAgent("agent-008", "RUNNING", 0, 25) >>

\* makeMockEntry(agentId): the halt coin, the reason and the id's random
\* suffix are the caller's choice
makeMockEntry(agentId, isHalt, reason, now, rnd) ==
  [id |-> agentId \o "-" \o ToString(now) \o "-" \o rnd,
   agent_id |-> agentId, step_id |-> Absent,
   decision |-> IF isHalt THEN "HALT" ELSE "PROCEED",
   reason |-> IF isHalt THEN reason ELSE "APPROVED",
   isNew |-> TRUE]

\* generateMockLogs(): 22 entries, isNew cleared, newest first.  The random
\* draws are one agent and one verdict for the whole list, and distinct
\* suffixes.
generateMockLogs(agentId, isHalt, now) ==
  [i \in 1..MockLogCount |->
     [makeMockEntry(agentId, isHalt, "POLICY_VIOLATION", now, ToString(MockLogCount - i))
        EXCEPT !.isNew = FALSE]]

(***************************************************************************)
(* Initial state: the component after its first render and effects.        *)
(***************************************************************************)
Init ==
  /\ agents = <<>>
  /\ logs = <<>>
  /\ stats = <<>>
  /\ connected = FALSE
  /\ mockMode = FALSE
  /\ haltedAgents = {}
  /\ wsConnected = FALSE
  /\ localHalted = {}
  /\ seenIds = {}
  /\ timers = {}
  /\ boot = "pending"
  /\ ws = "connecting"
  /\ polls = 0
  /\ selectedAgent = Absent
  /\ agentGraph = <<>>
  /\ graphReqs = {}
  /\ render = RenderIdle
  /\ posts = 0
  /\ hist = [op |-> "init", uids |-> {}, rep |-> FALSE,
             userHalted |-> {}, admitted |-> {}]

(***************************************************************************)
(* bootstrap()                                                             *)
(***************************************************************************)
BootstrapOk(agentsData, recent, statsData, halted) ==
  /\ boot = "pending"
  /\ boot' = "done"
  /\ haltedAgents' = halted
  /\ localHalted' = localHalted \cup halted
  /\ agents' = mergeAgents(agentsData, localHalted')
  /\ seenIds' = seenIds \cup UidSet(recent)
  /\ logs' = [i \in DOMAIN recent |-> WithNew(recent[i], FALSE)]
  /\ stats' = <<statsData>>
  /\ connected' = TRUE
  /\ mockMode' = FALSE
  /\ Delivered("bootstrap", UidSet(recent), {})
  /\ UNCHANGED <<wsConnected, timers, ws, polls>>
  /\ UNCHANGED <<panel, posts>>

\* the catch branch: demo mode; the push effect's cleanup closes the socket,
\* whose onclose clears wsConnected and schedules connectWebSocket
BootstrapFail(agentId, isHalt, now) ==
  /\ boot = "pending"
  /\ boot' = "done"
  /\ agents' = MOCK_AGENTS
  /\ logs' = generateMockLogs(agentId, isHalt, now)
  /\ connected' = FALSE
  /\ mockMode' = TRUE
  /\ ws' = "closed"
  /\ wsConnected' = FALSE
  /\ Did("bootstrapFail")
  /\ UNCHANGED <<stats, haltedAgents, localHalted, seenIds, timers, polls>>
  /\ UNCHANGED <<panel, posts>>

(***************************************************************************)
(* Fallback polling.                                                       *)
(***************************************************************************)
\* the interval fires and issues the three fetches
PollTick ==
  /\ ~mockMode /\ ~wsConnected
  /\ polls < MaxPolls
  /\ polls' = polls + 1
  /\ Did("pollTick")
  /\ UNCHANGED <<agents, logs, stats, connected, mockMode, haltedAgents, wsConnected,
                 localHalted, seenIds, timers, boot, ws>>
  /\ UNCHANGED <<panel, posts>>

\* the three fetches resolved
PollOk(recent, statsData, agentsData) ==
  /\ polls > 0
  /\ polls' = polls - 1
  /\ connected' = TRUE
  /\ stats' = <<statsData>>
  /\ agents' = mergeAgents(agentsData, localHalted)
  /\ LET newEntries == pollNewEntries(recent, seenIds)
     IN  /\ seenIds' = seenIds \cup UidSet(newEntries)
         /\ IF Len(newEntries) > 0
            THEN /\ logs' = pollLogs(newEntries, logs)
                 /\ timers' = timers \cup {Timer(UidSet(newEntries), pollTimerIds(newEntries))}
            ELSE UNCHANGED <<logs, timers>>
         /\ Delivered("poll", UidSet(recent), UidSet(newEntries))
  /\ UNCHANGED <<mockMode, haltedAgents, wsConnected, localHalted, boot, ws>>
  /\ UNCHANGED <<panel, posts>>

\* a variant that applies the /stats response that did arrive
PollFail_partial ==
  /\ polls > 0
  /\ polls' = polls - 1
  /\ connected' = FALSE
  /\ stats' = <<ZeroStats>>
  /\ Did("pollFail")
  /\ UNCHANGED <<agents, logs, mockMode, haltedAgents, wsConnected,
                 localHalted, seenIds, timers, boot, ws>>
  /\ UNCHANGED <<panel, posts>>

\* one of the fetches was rejected
PollFail ==
  /\ polls > 0
  /\ polls' = polls - 1
  /\ connected' = FALSE
  /\ Did("pollFail")
  /\ UNCHANGED <<agents, logs, stats, mockMode, haltedAgents, wsConnected,
                 localHalted, seenIds, timers, boot, ws>>
  /\ UNCHANGED <<panel, posts>>

(***************************************************************************)
(* The push channel.                                                       *)
(***************************************************************************)
WsOpen ==
  /\ ws = "connecting"
  /\ ws' = "open"
  /\ wsConnected' = TRUE
  /\ Did("wsOpen")
  /\ UNCHANGED <<agents, logs, stats, connected, mockMode, haltedAgents,
                 localHalted, seenIds, timers, boot, polls>>
  /\ UNCHANGED <<panel, posts>>

\* a variant of onclose that leaves the connected flag as it is
WsClose_keepConnected ==
  /\ ws \in {"connecting", "open"}
  /\ ws' = "closed"
  /\ Did("wsClose")
  /\ UNCHANGED <<agents, logs, stats, connected, mockMode, haltedAgents, wsConnected,
                 localHalted, seenIds, timers, boot, polls>>
  /\ UNCHANGED <<panel, posts>>

\* onclose (onerror closes the socket, which ends here too)
WsClose ==
  /\ ws \in {"connecting", "open"}
  /\ ws' = "closed"
  /\ wsConnected' = FALSE
  /\ Did("wsClose")
  /\ UNCHANGED <<agents, logs, stats, connected, mockMode, haltedAgents,
                 localHalted, seenIds, timers, boot, polls>>
  /\ UNCHANGED <<panel, posts>>

\* setTimeout(connectWebSocket, 2000) fires
WsReconnect ==
  /\ ws = "closed"
  /\ ws' = "connecting"
  /\ Did("wsReconnect")
  /\ UNCHANGED <<agents, logs, stats, connected, mockMode, haltedAgents, wsConnected,
                 localHalted, seenIds, timers, boot, polls>>
  /\ UNCHANGED <<panel, posts>>

\* a variant that looks only at the visible buffer
pushIsDuplicate_inBuffer(decision, seen) ==
  \E i \in DOMAIN logs : Uid(logs[i]) = Uid(decision)

\* a variant that never finds a duplicate
pushIsDuplicate_never(decision, seen) == FALSE

\* seenIds.current.has(uid): the message is a duplicate
pushIsDuplicate(decision, seen) == Uid(decision) \in seen

\* onmessage, msg.type === "decision"
WsDecision(decision) ==
  /\ ws = "open"
  /\ IF pushIsDuplicate(decision, seenIds)
     THEN /\ UNCHANGED <<agents, logs, stats, seenIds, timers>>
          /\ Delivered("push", {Uid(decision)}, {})
     ELSE /\ seenIds' = seenIds \cup {Uid(decision)}
          /\ logs' = pushLogs(decision, logs)
          /\ timers' = timers \cup {Timer({Uid(decision)}, pushTimerIds(decision))}
          /\ stats' = statsOnDecision(stats, decision)
          /\ agents' = agentsOnDecision(agents, decision)
          /\ Delivered("push", {Uid(decision)}, {Uid(decision)})
  /\ UNCHANGED <<connected, mockMode, haltedAgents, wsConnected, localHalted,
                 boot, ws, polls>>
  /\ UNCHANGED <<panel, posts>>

\* onmessage, msg.type === "agent_status"
WsAgentStatus(halted, status, agentId) ==
  /\ ws = "open"
  /\ haltedAgents' = halted
  /\ localHalted' = IF status = "resumed"
                    THEN (localHalted \cup halted) \ {agentId}
                    ELSE localHalted \cup halted
  /\ hist' = [hist EXCEPT
                !.op = "agentStatus", !.rep = FALSE,
                !.userHalted = IF status = "resumed" THEN @ \ {agentId} ELSE @]
  /\ UNCHANGED <<agents, logs, stats, connected, mockMode, wsConnected, seenIds,
                 timers, boot, ws, polls>>
  /\ UNCHANGED <<panel, posts>>

\* a variant that forgets to clear the seen identities
WsReset_keepSeen ==
  /\ ws = "open"
  /\ agents' = <<>>
  /\ logs' = <<>>
  /\ stats' = <<ZeroStats>>
  /\ haltedAgents' = {}
  /\ localHalted' = {}
  /\ hist' = [hist EXCEPT
                !.op = "reset", !.uids = {}, !.rep = FALSE,
                !.userHalted = {}, !.admitted = {}]
  /\ UNCHANGED <<connected, mockMode, wsConnected, seenIds, timers, boot, ws, polls>>
  /\ selectedAgent' = Absent
  /\ agentGraph' = <<>>
  /\ UNCHANGED <<graphReqs, render, posts>>

\* onmessage, msg.type === "reset"
WsReset ==
  /\ ws = "open"
  /\ agents' = <<>>
  /\ logs' = <<>>
  /\ stats' = <<ZeroStats>>
  /\ haltedAgents' = {}
  /\ localHalted' = {}
  /\ seenIds' = {}
  /\ hist' = [hist EXCEPT
                !.op = "reset", !.uids = {}, !.rep = FALSE,
                !.userHalted = {}, !.admitted = {}]
  /\ UNCHANGED <<connected, mockMode, wsConnected, timers, boot, ws, polls>>
  /\ selectedAgent' = Absent
  /\ agentGraph' = <<>>
  /\ UNCHANGED <<graphReqs, render, posts>>

\* what onmessage reads of a frame: whether JSON.parse(event.data) returns,
\* msg.type, and whether msg.data is there
Frame(parses, type, hasData) == [parses |-> parses, type |-> type, hasData |-> hasData]

\* the tags the if / else-if chain of onmessage tests for
MessageTypes == {"decision", "policy_update", "agent_status", "reset"}

\* the branches whose first statement reads a property of msg.data
\* (decision.id, msg.data.policies, msg.data.halted_agents)
ReadsData == {"decision", "policy_update", "agent_status"}

\* the try block throws before any state is set: JSON.parse on text that is
\* not JSON, or a property read on an undefined msg.data
onmessageThrows(f) == ~f.parses \/ (f.type \in ReadsData /\ ~f.hasData)

\* the frame parses and no branch of the chain matches its tag
noBranch(f) == f.parses /\ f.type \notin MessageTypes

\* a variant whose catch block closes the socket
WsOddFrame_closes(f) ==
  /\ ws = "open"
  /\ onmessageThrows(f) \/ noBranch(f)
  /\ ws' = "closed"
  /\ wsConnected' = FALSE
  /\ Did("oddFrame")
  /\ UNCHANGED <<agents, logs, stats, connected, mockMode, haltedAgents,
                 localHalted, seenIds, timers, boot, polls>>
  /\ UNCHANGED <<panel, posts>>

\* onmessage on a frame that throws inside the try block (the catch logs the
\* error) or that matches no branch
WsOddFrame(f) ==
  /\ ws = "open"
  /\ onmessageThrows(f) \/ noBranch(f)
  /\ Did("oddFrame")
  /\ UNCHANGED <<agents, logs, stats, connected, mockMode, haltedAgents, wsConnected,
                 localHalted, seenIds, timers, boot, ws, polls>>
  /\ UNCHANGED <<panel, posts>>

(***************************************************************************)
(* Timers.                                                                 *)
(***************************************************************************)
\* a setTimeout(() => setLogs(l => l.map(...)), 1000) callback runs
TimerFire(t) ==
  /\ t \in timers
  /\ timers' = timers \ {t}
  /\ logs' = expireNew(logs, t.ids)
  /\ Did("timer")
  /\ UNCHANGED <<agents, stats, connected, mockMode, haltedAgents, wsConnected,
                 localHalted, seenIds, boot, ws, polls>>
  /\ UNCHANGED <<panel, posts>>

(***************************************************************************)
(* The mock interval.                                                      *)
(***************************************************************************)
\* the random suffix of an id, Math.random().toString(36).slice(2, 6), as
\* drawn by the interval's entries
TickSuffix == "r"

MockTick(agentId, isHalt, reason, now) ==
  /\ mockMode
  /\ Cardinality({i \in DOMAIN logs :
                    logs[i].id = agentId \o "-" \o ToString(now) \o "-" \o TickSuffix})
       < MaxMock
  /\ \E i \in DOMAIN MOCK_AGENTS :
        MOCK_AGENTS[i].agent_id = agentId /\ agentId \notin localHalted
  /\ LET entry == makeMockEntry(agentId, isHalt, reason, now, TickSuffix)
     IN  /\ logs' = Slice0(<<entry>> \o logs, LogCap)
         /\ timers' = timers \cup {Timer({Uid(entry)}, {entry.id})}
  /\ Did("mock")
  /\ UNCHANGED <<agents, stats, connected, mockMode, haltedAgents, wsConnected,
                 localHalted, seenIds, boot, ws, polls>>
  /\ UNCHANGED <<panel, posts>>

(***************************************************************************)
(* The sidebar's stop and resume buttons.                                  *)
(***************************************************************************)
\* Sidebar: isHalted = status === "HALTED" || haltedAgents.has(id); the row
\* shows the resume button when it holds and the stop button otherwise
IsHaltedRow(a) == a.status = "HALTED" \/ a.agent_id \in haltedAgents

\* `halt-${agentId}-${Date.now()}`
manualId(agentId, now) == "halt-" \o agentId \o "-" \o ToString(now)

manualEntry(agentId, now) ==
  [id |-> manualId(agentId, now), agent_id |-> agentId, step_id |-> Absent,
   decision |-> "HALT", reason |-> "MANUAL_OVERRIDE", isNew |-> TRUE]

\* [manualEntry, ...prev]
stopLogs(entry, prev) == <<entry>> \o prev

\* prev.map(a => a.agent_id === agentId ? {...a, status: "HALTED", lastDecision: "HALT"} : a)
stopAgents(prev, agentId) ==
  [i \in DOMAIN prev |->
     IF prev[i].agent_id = agentId
     THEN [prev[i] EXCEPT !.status = "HALTED", !.lastDecision = "HALT"]
     ELSE prev[i]]

\* prev.map(a => a.agent_id === agentId ? {...a, status: "RUNNING"} : a)
resumeAgents(prev, agentId) ==
  [i \in DOMAIN prev |->
     IF prev[i].agent_id = agentId THEN [prev[i] EXCEPT !.status = "RUNNING"]
     ELSE prev[i]]

\* handleStop(agentId), with Date.now() reading `now`, up to its await: the
\* POST is issued last and left in flight
HandleStop(agentId, now) ==
  /\ \E i \in DOMAIN agents : agents[i].agent_id = agentId /\ ~IsHaltedRow(agents[i])
  /\ localHalted' = localHalted \cup {agentId}
  /\ haltedAgents' = haltedAgents \cup {agentId}
  /\ agents' = stopAgents(agents, agentId)
  /\ logs' = stopLogs(manualEntry(agentId, now), logs)
  /\ timers' = timers \cup {Timer({manualId(agentId, now)}, {manualId(agentId, now)})}
  /\ hist' = [hist EXCEPT
                !.op = "stop", !.rep = FALSE, !.userHalted = @ \cup {agentId}]
  /\ UNCHANGED <<stats, connected, mockMode, wsConnected, seenIds, boot, ws, polls>>
  /\ posts' = posts + 1
  /\ UNCHANGED panel

\* handleResume(agentId), up to its await
HandleResume(agentId) ==
  /\ \E i \in DOMAIN agents : agents[i].agent_id = agentId /\ IsHaltedRow(agents[i])
  /\ localHalted' = localHalted \ {agentId}
  /\ haltedAgents' = haltedAgents \ {agentId}
  /\ agents' = resumeAgents(agents, agentId)
  /\ hist' = [hist EXCEPT
                !.op = "resume", !.rep = FALSE,
                !.userHalted = @ \ {agentId}]
  /\ UNCHANGED <<logs, stats, connected, mockMode, wsConnected, seenIds, timers,
                 boot, ws, polls>>
  /\ posts' = posts + 1
  /\ UNCHANGED panel

\* the POST resolved: the handler returns
PostOk ==
  /\ posts > 0
  /\ posts' = posts - 1
  /\ Did("postOk")
  /\ UNCHANGED <<agents, logs, stats, connected, mockMode, haltedAgents, wsConnected,
                 localHalted, seenIds, timers, boot, ws, polls, panel>>

\* a variant whose catch block undoes the local halt
PostFail_rollback ==
  /\ posts > 0
  /\ posts' = posts - 1
  /\ localHalted' = {}
  /\ haltedAgents' = {}
  /\ Did("postFail")
  /\ UNCHANGED <<agents, logs, stats, connected, mockMode, wsConnected,
                 seenIds, timers, boot, ws, polls, panel>>

\* the POST was rejected: the empty catch block runs and the handler returns
PostFail ==
  /\ posts > 0
  /\ posts' = posts - 1
  /\ Did("postFail")
  /\ UNCHANGED <<agents, logs, stats, connected, mockMode, haltedAgents, wsConnected,
                 localHalted, seenIds, timers, boot, ws, polls, panel>>

\* room left by the bounds for one more press of a sidebar button
ManualRoom ==
  Cardinality({i \in DOMAIN logs : logs[i].reason = "MANUAL_OVERRIDE"}) < MaxManual

PostRoom == posts < MaxPosts



(***************************************************************************)
(* The reasoning panel: selecting an agent and fetching its graph.         *)
(* A request in flight is [agent, kind, fallback]: kind is "select" for    *)
(* the fetch of handleSelectAgent and "refresh" for one of the auto-       *)
(* refresh interval; fallback is <<g>>, the graph the catch block of       *)
(* handleSelectAgent builds from the logs it closed over, or <<>>.         *)
(***************************************************************************)
\* the catch block's graph: one node per buffer entry of the agent
fallbackGraph(buf, agentId) ==
  LET agentLogs == SelectSeq(buf, LAMBDA l : l.agent_id = agentId)
  IN  [agent_id |-> agentId,
       nodes |-> [i \in DOMAIN agentLogs |->
                    [id |-> IF agentLogs[i].step_id # Absent
                            THEN agentLogs[i].step_id
                            ELSE "step-" \o ToString(i - 1),
                     agent_id |-> agentId]],
       cross_agent_nodes |-> <<>>,
       influences |-> <<>>]

GraphRoom == Cardinality(graphReqs) < MaxGraphReqs

\* handleSelectAgent(agentId), up to its await; the rows of the sidebar are
\* the agents of the registry
HandleSelectAgent(agentId) ==
  /\ agentId \in AgentIdsOf(agents)
  /\ IF selectedAgent = agentId
     THEN /\ selectedAgent' = Absent
          /\ agentGraph' = <<>>
          /\ UNCHANGED graphReqs
     ELSE /\ selectedAgent' = agentId
          /\ graphReqs' = graphReqs \cup
               {[agent |-> agentId, kind |-> "select",
                 fallback |-> <<fallbackGraph(logs, agentId)>>]}
          /\ UNCHANGED agentGraph
  /\ Did("select")
  /\ UNCHANGED <<agents, logs, stats, connected, mockMode, haltedAgents, wsConnected,
                 localHalted, seenIds, timers, boot, ws, polls, posts, render>>

\* the auto-refresh interval fires and issues its fetch
GraphRefreshTick ==
  /\ selectedAgent # Absent /\ ~mockMode
  /\ graphReqs' = graphReqs \cup
       {[agent |-> selectedAgent, kind |-> "refresh", fallback |-> <<>>]}
  /\ Did("refreshTick")
  /\ UNCHANGED <<agents, logs, stats, connected, mockMode, haltedAgents, wsConnected,
                 localHalted, seenIds, timers, boot, ws, polls, posts,
                 selectedAgent, agentGraph, render>>

\* a graph fetch resolved: setAgentGraph(graphData)
GraphOk(req, graphData) ==
  /\ req \in graphReqs
  /\ graphReqs' = graphReqs \ {req}
  /\ agentGraph' = <<graphData>>
  /\ Did("graphOk")
  /\ UNCHANGED <<agents, logs, stats, connected, mockMode, haltedAgents, wsConnected,
                 localHalted, seenIds, timers, boot, ws, polls, posts, selectedAgent, render>>

\* a graph fetch was rejected: handleSelectAgent installs its fallback graph,
\* the refresh ignores the error
GraphFail(req) ==
  /\ req \in graphReqs
  /\ graphReqs' = graphReqs \ {req}
  /\ agentGraph' = IF req.kind = "select" THEN req.fallback ELSE agentGraph
  /\ Did("graphFail")
  /\ UNCHANGED <<agents, logs, stats, connected, mockMode, haltedAgents, wsConnected,
                 localHalted, seenIds, timers, boot, ws, polls, posts, selectedAgent, render>>

(***************************************************************************)
(* ReasoningGraph: the nodes and edges the panel draws for a graph object. *)
(* Only the fields the layout reads are kept: a node is [id, agent_id],    *)
(* an influence [source, target, source_agent, target_agent].  A JavaScript*)
(* Set iterates in insertion order, so upstream and downstream are lists   *)
(* without repetition.                                                     *)
(***************************************************************************)
Elems(s) == {s[i] : i \in DOMAIN s}

\* set.add(x)
SetAdd(s, x) == IF x \in Elems(s) THEN s ELSE Append(s, x)

\* agentGraph.nodes.slice(0, 6)
mainNodes(g) == Slice0(g.nodes, MainSlice)

\* agentSteps[a] || []: the main nodes for the selected agent, then the
\* cross-agent nodes of a in their order
agentSteps(g, sel, a) ==
  (IF a = sel THEN mainNodes(g) ELSE <<>>)
    \o SelectSeq(g.cross_agent_nodes, LAMBDA n : n.agent_id = a)

\* the body of influences.forEach: what one link does to the two sets
classifyEdge(inf, sel, upstream, downstream) ==
  IF inf.target_agent = sel
  THEN [upstream |-> SetAdd(upstream, inf.source_agent), downstream |-> downstream]
  ELSE IF inf.source_agent = sel
  THEN [upstream |-> upstream, downstream |-> SetAdd(downstream, inf.target_agent)]
  ELSE [upstream |->
          IF inf.target_agent \in Elems(upstream)
          THEN SetAdd(upstream, inf.source_agent) ELSE upstream,
        downstream |->
          IF inf.source_agent \in Elems(downstream)
          THEN SetAdd(downstream, inf.target_agent) ELSE downstream]

RECURSIVE chainSides(_, _, _, _, _)
\* influences.forEach(inf => ...) from index i on
chainSides(influences, i, sel, upstream, downstream) ==
  IF i > Len(influences)
  THEN [upstream |-> upstream, downstream |-> downstream]
  ELSE LET sides == classifyEdge(influences[i], sel, upstream, downstream)
       IN  chainSides(influences, i + 1, sel, sides.upstream, sides.downstream)

\* upstream agents, the selected agent, downstream agents
agentOrder(g, sel) ==
  IF Len(g.influences) > 0
  THEN LET sides == chainSides(g.influences, 1, sel, <<>>, <<>>)
       IN  sides.upstream \o <<sel>> \o sides.downstream
  ELSE <<sel>>

\* the horizontal offset of the lane at position chainIdx (counted from 0)
xBase(chainIdx) == 50 + chainIdx * chainSpacing

\* steps.slice(0, 3) of the lane at position chainIdx, as pushed to
\* allGraphNodes; stepIdx counts from 0
laneNodes(g, sel, a, chainIdx) ==
  LET steps == Slice0(agentSteps(g, sel, a), LaneCap)
  IN  [k \in DOMAIN steps |->
         [id |-> steps[k].id, agent_id |-> a,
          x |-> xBase(chainIdx),
          y |-> 40 + chainIdx * 30 + (k - 1) * nodeSpacing,
          isMain |-> (a = sel)]]

RECURSIVE lanesFrom(_, _, _, _)
\* agentOrder.forEach((agentId, chainIdx) => ...) from position i on
lanesFrom(g, sel, order, i) ==
  IF i > Len(order) THEN <<>>
  ELSE laneNodes(g, sel, order[i], i - 1) \o lanesFrom(g, sel, order, i + 1)

allGraphNodes(g, sel) == lanesFrom(g, sel, agentOrder(g, sel), 1)

\* Object.fromEntries(allGraphNodes.map(n => [n.id, n])): the last node of
\* an id wins
nodeById(nodes) ==
  [id \in {nodes[k].id : k \in DOMAIN nodes} |->
     nodes[CHOOSE k \in DOMAIN nodes :
             nodes[k].id = id /\ \A j \in DOMAIN nodes : nodes[j].id = id => j <= k]]

\* a variant that draws a link as soon as its source resolves
influenceEdges_sourceOnly(g, nodes) ==
  LET byId == nodeById(nodes)
      kept == SelectSeq(g.influences, LAMBDA inf : inf.source \in DOMAIN byId)
  IN  [k \in DOMAIN kept |->
         [from |-> kept[k].source, to |-> kept[k].target, type |-> "INFLUENCES"]]

\* influences.map(inf => from && to ? {from, to, type} : null).filter(Boolean);
\* an edge keeps the ids of the two nodes it joins
influenceEdges(g, nodes) ==
  LET byId == nodeById(nodes)
      kept == SelectSeq(g.influences,
                LAMBDA inf : inf.source \in DOMAIN byId /\ inf.target \in DOMAIN byId)
  IN  [k \in DOMAIN kept |->
         [from |-> byId[kept[k].source].id, to |-> byId[kept[k].target].id,
          type |-> "INFLUENCES"]]

\* the early return: nothing is drawn without a selection or without nodes
panelEmpty ==
  selectedAgent = Absent \/ agentGraph = <<>> \/ Len(agentGraph[1].nodes) = 0

\* the nodes and the cross-agent edges on screen
drawnNodes == IF panelEmpty THEN <<>> ELSE allGraphNodes(agentGraph[1], selectedAgent)

\* allGraphNodes.filter(n => n.isMain)
mainAgentNodes(nodes) == SelectSeq(nodes, LAMBDA n : n.isMain)

\* mainAgentNodes.slice(1).map((node, i) => ({from: mainAgentNodes[i], to: node, type: "NEXT"}))
nextEdges(nodes) ==
  LET main == mainAgentNodes(nodes)
  IN  [i \in 1..(Len(main) - 1) |->
         [from |-> main[i], to |-> main[i + 1], type |-> "NEXT"]]

drawnInfluences ==
  IF panelEmpty THEN <<>> ELSE influenceEdges(agentGraph[1], drawnNodes)

drawnNext == IF panelEmpty THEN <<>> ELSE nextEdges(drawnNodes)

(***************************************************************************)
(* The classification loop of one render, step by step.  A render is due   *)
(* when the props differ from those last rendered; it runs to its end      *)
(* before any handler does (rendering is synchronous).                     *)
(***************************************************************************)
\* the list the loop of the current render walks
renderInfluences == render.agentGraph[1].influences

\* ReasoningGraph is called with the current props and reaches
\* influences.forEach with two empty sets
RenderStart ==
  /\ render.pc # "loop"
  /\ <<selectedAgent, agentGraph>> # <<render.selectedAgent, render.agentGraph>>
  /\ ~panelEmpty /\ Len(agentGraph[1].influences) > 0
  /\ render' = [pc |-> "loop", i |-> 1, upstream |-> <<>>, downstream |-> <<>>,
                selectedAgent |-> selectedAgent, agentGraph |-> agentGraph]
  /\ Did("renderStart")
  /\ UNCHANGED <<agents, logs, stats, connected, mockMode, haltedAgents, wsConnected,
                 localHalted, seenIds, timers, boot, ws, polls, posts,
                 selectedAgent, agentGraph, graphReqs>>

\* a variant that starts the pass over when a link has added an agent
RenderStep_rescan ==
  /\ render.pc = "loop" /\ render.i <= Len(renderInfluences)
  /\ LET sides == classifyEdge(renderInfluences[render.i], render.selectedAgent,
                               render.upstream, render.downstream)
     IN  render' = [render EXCEPT
                      !.i = IF sides = [upstream |-> render.upstream,
                                        downstream |-> render.downstream]
                            THEN @ + 1 ELSE 1,
                      !.upstream = sides.upstream,
                      !.downstream = sides.downstream]
  /\ Did("renderStep")
  /\ UNCHANGED <<agents, logs, stats, connected, mockMode, haltedAgents, wsConnected,
                 localHalted, seenIds, timers, boot, ws, polls, posts,
                 selectedAgent, agentGraph, graphReqs>>

\* forEach calls its callback on the next link
RenderStep ==
  /\ render.pc = "loop" /\ render.i <= Len(renderInfluences)
  /\ LET sides == classifyEdge(renderInfluences[render.i], render.selectedAgent,
                               render.upstream, render.downstream)
     IN  render' = [render EXCEPT
                      !.i = @ + 1,
                      !.upstream = sides.upstream,
                      !.downstream = sides.downstream]
  /\ Did("renderStep")
  /\ UNCHANGED <<agents, logs, stats, connected, mockMode, haltedAgents, wsConnected,
                 localHalted, seenIds, timers, boot, ws, polls, posts,
                 selectedAgent, agentGraph, graphReqs>>

\* forEach returns: the list is exhausted
RenderDone ==
  /\ render.pc = "loop" /\ render.i > Len(renderInfluences)
  /\ render' = [render EXCEPT !.pc = "done"]
  /\ Did("renderDone")
  /\ UNCHANGED <<agents, logs, stats, connected, mockMode, haltedAgents, wsConnected,
                 localHalted, seenIds, timers, boot, ws, polls, posts,
                 selectedAgent, agentGraph, graphReqs>>

(***************************************************************************)
(* What the backend and the user can send.                                 *)
(***************************************************************************)
Decision(id, agentId, stepId, verdict, reason) ==
  [id |-> id, agent_id |-> agentId, step_id |-> stepId,
   decision |-> verdict, reason |-> reason]

D1 == Decision("a-1", "agent-001", "1", "PROCEED", "APPROVED")
D2 == Decision("a-2", "agent-001", "2", "HALT", "POLICY_VIOLATION")
\* no id on the wire and a HALT without a reason
D3 == Decision(Absent, "agent-002", "1", "HALT", Absent)
\* a verdict that is neither HALT nor PROCEED
D4 == Decision(Absent, "agent-002", "2", "REVIEW", Absent)

RECURSIVE SeqsUpTo(_, _)
SeqsUpTo(S, n) ==
  IF n = 0 THEN {<<>>}
  ELSE LET shorter == SeqsUpTo(S, n - 1)
       IN  shorter \cup {Append(q, x) : q \in {r \in shorter : Len(r) = n - 1}, x \in S}

\* a delivery in which no identity occurs twice
DupFree(batch) == \A i, j \in DOMAIN batch : Uid(batch[i]) = Uid(batch[j]) => i = j

\* /recent responses over a feed, each duplicate-free
BatchesOver(feed) == {b \in SeqsUpTo(feed, Cardinality(feed)) : DupFree(b)}

AgentIds == {"agent-001", "agent-002"}

ServerAgent(id, hc, ts) == [agent_id |-> id, halt_count |-> hc, total_steps |-> ts]

\* /agents responses
AgentSnaps ==
  { <<>>,
    <<ServerAgent("agent-001", 3, 5)>>,
    <<ServerAgent("agent-001", 1, 2), ServerAgent("agent-002", 0, 1)>> }

\* /stats responses: the backend's own aggregates
StatsSnaps ==
  { ZeroStats,
    [total_steps |-> 3, halt_count |-> 2, proceed_count |-> 1,
     violations_by_type |-> [r \in {"POLICY_VIOLATION", "UNKNOWN"} |-> 1]] }

\* /halted responses
HaltedSnaps == { {}, {"agent-002"} }

\* /agent/{id}/graph responses: node k of agent a, the first n nodes of a,
\* and a cross-agent link between two nodes
GraphNode(a, k) == [id |-> a \o "/" \o ToString(k), agent_id |-> a]

Lane(a, n) == [k \in 1..n |-> GraphNode(a, k)]

Link(sa, i, ta, j) ==
  [source |-> GraphNode(sa, i).id, target |-> GraphNode(ta, j).id,
   source_agent |-> sa, target_agent |-> ta]

LaneSizes == {0, 1, MaxLane}

\* links between the selected agent sel and two other agents b and c: into
\* and out of sel, from and to a late node, and from c into b
GraphLinks(sel, b, c) ==
  { Link(b, 1, sel, 1), Link(sel, 1, b, 1), Link(b, MaxLane, sel, 1),
    Link(b, 1, sel, MaxLane), Link(c, 1, b, 1), Link(sel, 1, c, 1) }

\* every link of the response joins two nodes of the response
LinksResolve(g) ==
  LET ids == {g.nodes[k].id : k \in DOMAIN g.nodes} \cup
             {g.cross_agent_nodes[k].id : k \in DOMAIN g.cross_agent_nodes}
  IN  \A k \in DOMAIN g.influences :
         g.influences[k].source \in ids /\ g.influences[k].target \in ids

GraphsFor(sel, b, c) ==
  { g \in [agent_id : {sel},
           nodes : {Lane(sel, n) : n \in LaneSizes \cup {MainSlice + 1}},
           cross_agent_nodes : {Lane(b, nb) \o Lane(c, nc) : nb \in LaneSizes, nc \in LaneSizes},
           influences : SeqsUpTo(GraphLinks(sel, b, c), MaxLinks)] :
      LinksResolve(g) }

(***************************************************************************)
(* The next-state relation, over the deliveries the backend may make.      *)
(***************************************************************************)
NextOver(feed, batches, agentSnaps, statsSnaps, haltedSnaps, agentIds, nows) ==
  \/ \E ag \in agentSnaps, b \in batches, st \in statsSnaps, h \in haltedSnaps :
        BootstrapOk(ag, b, st, h)
  \/ \E now \in nows : BootstrapFail("agent-001", FALSE, now)
  \/ PollTick
  \/ \E b \in batches, st \in statsSnaps, ag \in agentSnaps : PollOk(b, st, ag)
  \/ PollFail
  \/ WsOpen
  \/ WsClose
  \/ WsReconnect
  \/ \E d \in feed : WsDecision(d)
  \/ \E h \in haltedSnaps, status \in {"halted", "resumed"}, a \in agentIds :
        WsAgentStatus(h, status, a)
  \/ WsReset
  \/ \E t \in timers : TimerFire(t)
  \/ \E a \in agentIds, now \in nows : MockTick(a, FALSE, "POLICY_VIOLATION", now)
  \/ \E a \in agentIds, now \in nows : ManualRoom /\ PostRoom /\ HandleStop(a, now)
  \/ \E a \in agentIds : PostRoom /\ HandleResume(a)
  \/ PostOk
  \/ PostFail

\* The dashboard over one decision and one agent: every handler but those of
\* the reasoning panel, which SpecPanel and SpecBuilder cover.
Next ==
  NextOver({D1}, BatchesOver({D1}),
           {<<>>, <<ServerAgent("agent-001", 3, 5)>>}, {ZeroStats}, {{}},
           {"agent-001"}, {0})

Spec == Init /\ [][Next]_vars

(***************************************************************************)
(* The delivery paths alone (snapshot, poll, push, reset, expiry timers),  *)
(* over a richer feed.  The handlers left out are those of the sidebar     *)
(* buttons, agent_status messages and the demo mode.                       *)
(***************************************************************************)
NextIngest(feed, batches, agentSnaps, statsSnaps) ==
  \/ \E ag \in agentSnaps, b \in batches, st \in statsSnaps :
        BootstrapOk(ag, b, st, {})
  \/ PollTick
  \/ \E b \in batches, st \in statsSnaps, ag \in agentSnaps : PollOk(b, st, ag)
  \/ PollFail
  \/ WsOpen
  \/ WsClose
  \/ WsReconnect
  \/ \E d \in feed : WsDecision(d)
  \/ WsReset
  \/ \E t \in timers : TimerFire(t)

\* two decisions, one with an id and one without, in duplicate-free batches
IngestFeed == {D1, D3}

SpecIngest ==
  Init /\ [][NextIngest(IngestFeed, BatchesOver(IngestFeed),
                        {<<>>}, {ZeroStats})]_vars

\* the batch of the spec's scenario: [a-1, a-1, a-2]
ScenarioBatch == <<D1, D1, D2>>

\* deliveries that may repeat a record within one batch
SpecDup ==
  Init /\ [][NextIngest({D1, D2}, {<<>>, <<D1>>, <<D2, D2>>, ScenarioBatch},
                        {<<>>}, {ZeroStats})]_vars

\* records that lack a required field: no agent_id, no decision
DNoAgent == Decision("m-1", Absent, "1", "HALT", "POLICY_VIOLATION")
DNoVerdict == Decision("m-2", "agent-002", "1", Absent, Absent)

MalformedFeed == {DNoAgent, DNoVerdict}

\* a batch with a malformed record ahead of a well-formed one
MixedBatch == <<DNoAgent, D1>>

WellFormed(d) == d.agent_id # Absent /\ d.decision # Absent

SpecMalformed ==
  Init /\ [][NextIngest(MalformedFeed, {<<>>, MixedBatch}, {<<>>}, {ZeroStats})]_vars

\* the event of D1 in the other wire shape: no id, same agent_id and step_id
D1NoId == Decision(Absent, "agent-001", "1", "PROCEED", "APPROVED")

\* one event, pushed with its id and polled without it
SpecShapes ==
  Init /\ [][NextIngest({D1, D2}, {<<>>, <<D1NoId>>, <<D2>>}, {<<>>}, {ZeroStats})]_vars

\* the verdicts and reasons the stats distinguish
StatsFeed == {D3, D4}

SpecStats ==
  Init /\ [][NextIngest(StatsFeed, SeqsUpTo(StatsFeed, 1), {<<>>}, StatsSnaps)]_vars

(***************************************************************************)
(* The registry paths alone: registry snapshots from the poll, push        *)
(* decisions, agent_status and reset messages, and the sidebar buttons,    *)
(* over two agents.  Expiry timers, which touch only isNew, never fire.    *)
(***************************************************************************)
NextRegistry(feed, agentSnaps, haltedSnaps, agentIds) ==
  \/ PollTick
  \/ \E ag \in agentSnaps : PollOk(<<>>, ZeroStats, ag)
  \/ WsOpen
  \/ WsClose
  \/ WsReconnect
  \/ \E d \in feed : WsDecision(d)
  \/ \E h \in haltedSnaps, status \in {"halted", "resumed"}, a \in agentIds :
        WsAgentStatus(h, status, a)
  \/ WsReset
  \/ \E a \in agentIds : ManualRoom /\ PostRoom /\ HandleStop(a, 0)
  \/ \E a \in agentIds : PostRoom /\ HandleResume(a)
  \/ PostOk
  \/ PostFail

SpecRegistry ==
  Init /\ [][NextRegistry({D1, D3}, AgentSnaps, HaltedSnaps, AgentIds)]_vars

(***************************************************************************)
(* The reset message, reached from states in which the snapshot, push      *)
(* decisions, agent_status messages and the stop button have filled the    *)
(* registry, the buffer, the stats and both halt sets.                     *)
(***************************************************************************)
NextReset ==
  \/ \E st \in StatsSnaps, h \in HaltedSnaps :
        BootstrapOk(<<ServerAgent("agent-001", 3, 5)>>, <<D1>>, st, h)
  \/ WsOpen
  \/ \E d \in {D1, D3} : WsDecision(d)
  \/ \E h \in HaltedSnaps, status \in {"halted", "resumed"} :
        WsAgentStatus(h, status, "agent-002")
  \/ WsReset
  \/ \E t \in timers : TimerFire(t)
  \/ \E a \in AgentIds : ManualRoom /\ PostRoom /\ HandleStop(a, 0)

SpecReset == Init /\ [][NextReset]_vars

(***************************************************************************)
(* The reasoning panel: two agents in the sidebar, selected and deselected *)
(* while graph requests are in flight; each response is a graph of one or  *)
(* two nodes of the agent it was asked for.                                *)
(***************************************************************************)
NextPanel ==
  \/ BootstrapOk(<<ServerAgent("agent-001", 1, 2), ServerAgent("agent-002", 0, 1)>>,
                 <<D1>>, ZeroStats, {})
  \/ \E a \in AgentIds : GraphRoom /\ HandleSelectAgent(a)
  \/ GraphRoom /\ GraphRefreshTick
  \/ \E req \in graphReqs, n \in {1, 2} :
        GraphOk(req, [agent_id |-> req.agent, nodes |-> Lane(req.agent, n),
                      cross_agent_nodes |-> <<>>, influences |-> <<>>])
  \/ \E req \in graphReqs : GraphFail(req)

SpecPanel == Init /\ [][NextPanel]_vars

(***************************************************************************)
(* The graph builder: agent-001 is selected and its graph request answered *)
(* with every response of GraphsFor, or rejected.                          *)
(***************************************************************************)
NextBuilder ==
  \/ BootstrapOk(<<ServerAgent("agent-001", 1, 2)>>, <<D1>>, ZeroStats, {})
  \/ GraphRoom /\ HandleSelectAgent("agent-001")
  \/ \E req \in graphReqs, g \in GraphsFor("agent-001", "agent-002", "agent-003") :
        GraphOk(req, g)
  \/ \E req \in graphReqs : GraphFail(req)

SpecBuilder == Init /\ [][NextBuilder]_vars

(***************************************************************************)
(* The graph builder on responses in which the selected agent influences   *)
(* itself (a step of agent-001 linked to a later step of agent-001),       *)
(* alone or next to links from and to one other agent.                     *)
(***************************************************************************)
SelfLinks(sel, b) == { Link(sel, 1, sel, 2), Link(b, 1, sel, 1), Link(sel, 1, b, 1) }

SelfGraphs(sel, b) ==
  { g \in [agent_id : {sel},
           nodes : {Lane(sel, n) : n \in LaneSizes \cup {2}},
           cross_agent_nodes : {Lane(b, nb) : nb \in LaneSizes},
           influences : SeqsUpTo(SelfLinks(sel, b), MaxLinks)] :
      LinksResolve(g) }

NextSelf ==
  \/ BootstrapOk(<<ServerAgent("agent-001", 1, 2)>>, <<D1>>, ZeroStats, {})
  \/ GraphRoom /\ HandleSelectAgent("agent-001")
  \/ \E req \in graphReqs, g \in SelfGraphs("agent-001", "agent-002") : GraphOk(req, g)
  \/ \E req \in graphReqs : GraphFail(req)

SpecSelf == Init /\ [][NextSelf]_vars

(***************************************************************************)
(* The classification loop on responses with up to MaxEdges links, among   *)
(* them a self-link of the selected agent and links in both directions     *)
(* with another agent.  The call stack runs the loop: a started loop takes *)
(* its next step.                                                          *)
(***************************************************************************)
ClassifyGraphs(sel, b) ==
  { g \in [agent_id : {sel},
           nodes : {Lane(sel, 2)},
           cross_agent_nodes : {Lane(b, 1)},
           influences : SeqsUpTo(SelfLinks(sel, b), MaxEdges)] :
      LinksResolve(g) }

NextClassify ==
  \/ BootstrapOk(<<ServerAgent("agent-001", 1, 2)>>, <<D1>>, ZeroStats, {})
  \/ render.pc # "loop" /\ GraphRoom /\ HandleSelectAgent("agent-001")
  \/ /\ render.pc # "loop"
     /\ \E req \in graphReqs, g \in ClassifyGraphs("agent-001", "agent-002") :
           GraphOk(req, g)
  \/ RenderStart
  \/ RenderStep
  \/ RenderDone

SpecClassify ==
  /\ Init /\ [][NextClassify]_vars
  /\ WF_vars(RenderStep)
  /\ WF_vars(RenderDone)

(***************************************************************************)
(* The sidebar buttons alone: two agents from the snapshot, stopped and    *)
(* resumed at one reading of the clock while the POSTs settle in any       *)
(* order or stay in flight, up to MaxHalts manual entries.                 *)
(***************************************************************************)
HaltRoom ==
  Cardinality({i \in DOMAIN logs : logs[i].reason = "MANUAL_OVERRIDE"}) < MaxHalts

NextHalt ==
  \/ BootstrapOk(<<ServerAgent("agent-001", 3, 5), ServerAgent("agent-002", 0, 1)>>,
                 <<D1>>, ZeroStats, {})
  \/ \E a \in AgentIds : HaltRoom /\ PostRoom /\ HandleStop(a, 0)
  \/ \E a \in AgentIds : PostRoom /\ HandleResume(a)
  \/ PostOk
  \/ PostFail
  \/ \E t \in timers : TimerFire(t)

SpecHalt == Init /\ [][NextHalt]_vars

(***************************************************************************)
(* The cap: the backend emits CapFeed unique decisions in order, each      *)
(* delivered once, by poll while the channel is down and by push once it   *)
(* is open; the oldest one may be delivered again at any time.             *)
(***************************************************************************)
CapDecision(n) ==
  Decision("c-" \o ToString(n), "agent-001", ToString(n), "PROCEED", "APPROVED")

\* the next decision not yet delivered, and the oldest one again
CapDeliveries ==
  LET n == Cardinality(seenIds)
  IN  {CapDecision(k) : k \in {n + 1} \cap 1..CapFeed} \cup
      {CapDecision(1) : k \in {n} \cap 1..CapFeed}

NextCap ==
  \/ WsOpen
  \/ PollTick
  \/ \E d \in CapDeliveries : PollOk(<<d>>, ZeroStats, <<>>)
  \/ \E d \in CapDeliveries : WsDecision(d)

SpecCap == Init /\ [][NextCap]_vars

\* the same, with the stop button pressed when the buffer has just filled
NextCapHalt ==
  \/ NextCap
  \/ /\ Len(logs) >= LogCap
     /\ Cardinality(seenIds) = LogCap
     /\ ManualRoom /\ PostRoom
     /\ HandleStop("agent-001", 0)
  \/ PostOk
  \/ PostFail

SpecCapHalt == Init /\ [][NextCapHalt]_vars

(***************************************************************************)
(* The push channel alone, from the first connection on: five decisions of *)
(* distinct identities, two of them HALTs for the same reason, arrive in   *)
(* any order and any number of times; the channel may drop, reconnect and  *)
(* be reset in between.  No snapshot and no poll writes the stats.         *)
(***************************************************************************)
D5 == Decision("a-3", "agent-003", "1", "HALT", "POLICY_VIOLATION")

PushFeed == {D1, D2, D3, D4, D5}

NextPush ==
  \/ WsOpen
  \/ WsClose
  \/ WsReconnect
  \/ \E d \in PushFeed : WsDecision(d)
  \/ WsReset
  \/ \E t \in timers : TimerFire(t)

SpecPush == Init /\ [][NextPush]_vars

(***************************************************************************)
(* A poll overtaken by the push channel.  The backend has counted one step *)
(* of agent-001, the decision a-1, and answers every request made so far   *)
(* with that state; the channel then opens and stays open, and the         *)
(* backend's further decisions arrive by push.  A poll response applied    *)
(* after a push is therefore one that was requested before the channel     *)
(* opened.                                                                 *)
(***************************************************************************)
StaleAgents == <<ServerAgent("agent-001", 0, 1)>>

NextStale ==
  \/ BootstrapOk(StaleAgents, <<D1>>, ZeroStats, {})
  \/ PollTick
  \/ PollOk(<<D1>>, ZeroStats, StaleAgents)
  \/ PollFail
  \/ WsOpen
  \/ \E d \in {D2, D3, D4} : WsDecision(d)
  \/ \E t \in timers : TimerFire(t)

SpecStale == Init /\ [][NextStale]_vars

(***************************************************************************)
(* The bootstrap snapshot next to the push channel.  The backend generates *)
(* a-1 and then a-2, and pushes each; /recent and /stats are two requests  *)
(* of the same Promise.all, each answered from the backend's state at its  *)
(* own moment: before a-1, between the two, or after a-2.                  *)
(***************************************************************************)
SnapshotRecents == { <<>>, <<D1>>, <<D2, D1>> }

SnapshotStats ==
  { ZeroStats,
    statsOnDecision(<<>>, D1)[1],
    statsOnDecision(statsOnDecision(<<>>, D1), D2)[1] }

\* the decisions the backend generates in this specification
Generated == {D1, D2}

NextSnapshot ==
  \/ \E recent \in SnapshotRecents, st \in SnapshotStats :
        BootstrapOk(<<>>, recent, st, {})
  \/ WsOpen
  \/ \E d \in Generated : WsDecision(d)
  \/ \E t \in timers : TimerFire(t)

SpecSnapshot == Init /\ [][NextSnapshot]_vars

(***************************************************************************)
(* The two halt sets: the snapshot's /halted list, agent_status messages   *)
(* that agree with themselves (a halted agent is in the list it comes      *)
(* with, a resumed one is not), reset, and the sidebar buttons.            *)
(***************************************************************************)
HaltLists == SUBSET AgentIds

NextHaltSets ==
  \/ \E h \in HaltLists :
        BootstrapOk(<<ServerAgent("agent-001", 1, 2), ServerAgent("agent-002", 0, 1)>>,
                    <<>>, ZeroStats, h)
  \/ WsOpen
  \/ \E h \in HaltLists, a \in AgentIds :
        \/ a \in h /\ WsAgentStatus(h, "halted", a)
        \/ a \notin h /\ WsAgentStatus(h, "resumed", a)
  \/ WsReset
  \/ \E a \in AgentIds : ManualRoom /\ PostRoom /\ HandleStop(a, 0)
  \/ \E a \in AgentIds : PostRoom /\ HandleResume(a)
  \/ PostOk
  \/ PostFail

SpecHaltSets == Init /\ [][NextHaltSets]_vars

(***************************************************************************)
(* The push channel receiving, next to decisions, status messages and      *)
(* reset, frames it has no branch for: text that is not JSON, a tag        *)
(* outside the four, no tag at all, and decision, policy_update and        *)
(* agent_status frames without data.                                       *)
(***************************************************************************)
OddFrames ==
  { Frame(FALSE, Absent, FALSE),
    Frame(TRUE, "ping", TRUE), Frame(TRUE, "ping", FALSE), Frame(TRUE, Absent, TRUE),
    Frame(TRUE, "decision", FALSE), Frame(TRUE, "policy_update", FALSE),
    Frame(TRUE, "agent_status", FALSE) }

NextFrames ==
  \/ \E h \in HaltedSnaps :
        BootstrapOk(<<ServerAgent("agent-001", 3, 5)>>, <<D1>>, ZeroStats, h)
  \/ WsOpen
  \/ WsClose
  \/ WsReconnect
  \/ \E d \in {D1, D3} : WsDecision(d)
  \/ \E h \in HaltedSnaps, status \in {"halted", "resumed"} :
        WsAgentStatus(h, status, "agent-002")
  \/ WsReset
  \/ \E f \in OddFrames : WsOddFrame(f)
  \/ \E t \in timers : TimerFire(t)

SpecFrames == Init /\ [][NextFrames]_vars

(***************************************************************************)
(* The transport under its scheduling: the poll interval keeps firing      *)
(* while its effect is mounted (neither demo mode nor a connected push     *)
(* channel), a fetch in flight resolves or is rejected, the reconnect      *)
(* timeout set by onclose fires, a socket that is connecting opens or      *)
(* fails, and an expiry timeout fires.  Nothing obliges the backend to     *)
(* answer well, and nothing obliges an open socket to close.               *)
(***************************************************************************)
PollSettles ==
  \/ \E b \in {<<>>, <<D1>>} : PollOk(b, ZeroStats, <<>>)
  \/ PollFail

SocketSettles == ws = "connecting" /\ (WsOpen \/ WsClose)

NextLive ==
  \/ BootstrapOk(<<>>, <<D1>>, ZeroStats, {})
  \/ BootstrapFail("agent-001", FALSE, 0)
  \/ PollTick
  \/ PollSettles
  \/ WsOpen
  \/ WsClose
  \/ WsReconnect
  \/ WsDecision(D1)
  \/ \E t \in timers : TimerFire(t)

SpecLive ==
  /\ Init /\ [][NextLive]_vars
  /\ WF_vars(PollTick)
  /\ WF_vars(PollSettles)
  /\ WF_vars(WsReconnect)
  /\ WF_vars(SocketSettles)
  /\ WF_vars(\E t \in timers : TimerFire(t))

(***************************************************************************)
(* The four ways an entry gets flagged new (push, poll, the mock interval, *)
(* the stop button) under the one scheduling fact their flags depend on:   *)
(* a setTimeout that was set fires.  The push channel stays open once it   *)
(* is, and the POST of the stop button stays in flight.                    *)
(***************************************************************************)
ExpireMockEntry == makeMockEntry("agent-001", TRUE, "POLICY_VIOLATION", 0, TickSuffix)

\* the identities that can be flagged new in this specification
ExpireIds == {Uid(D1), Uid(D3), manualId("agent-001", 0), ExpireMockEntry.id}

NextExpire ==
  \/ BootstrapOk(<<ServerAgent("agent-001", 1, 2)>>, <<>>, ZeroStats, {})
  \/ BootstrapFail("agent-001", FALSE, 0)
  \/ PollTick
  \/ \E b \in {<<>>, <<D3, D1>>} : PollOk(b, ZeroStats, <<ServerAgent("agent-001", 1, 2)>>)
  \/ PollFail
  \/ WsOpen
  \/ \E d \in {D1, D3} : WsDecision(d)
  \/ \E t \in timers : TimerFire(t)
  \/ MockTick("agent-001", TRUE, "POLICY_VIOLATION", 0)
  \/ ManualRoom /\ PostRoom /\ HandleStop("agent-001", 0)

SpecExpire ==
  /\ Init /\ [][NextExpire]_vars
  /\ WF_vars(\E t \in timers : TimerFire(t))

(***************************************************************************)
(* Properties.                                                             *)
(***************************************************************************)
\* no identity occurs twice in the buffer
NoDupIdentity(buf) == \A i, j \in DOMAIN buf : Uid(buf[i]) = Uid(buf[j]) => i = j

\* C1: a poll batch or a push message that carries exactly the identities of
\* the delivery before it (no reset in between) admits nothing: the seen set
\* and the buffer are the same after it as before it.
C1_RepeatedDeliveryAdmitsNothing ==
  [][(hist'.rep /\ hist'.op \in {"poll", "push"})
       => (logs' = logs /\ seenIds' = seenIds)]_vars

\* a two-record batch was polled a second time, with its entries in the buffer
C1_Witness ==
  /\ hist.op = "poll" /\ hist.rep
  /\ Cardinality(hist.uids) = 2
  /\ \A u \in hist.uids : Occ(logs, u) = 1

\* C2: when every delivery (push message, poll batch, bootstrap snapshot) is
\* duplicate-free, no two entries of the buffer have the same identity,
\* however the deliveries interleave and repeat.
C2_BufferHasNoDuplicateIdentity == NoDupIdentity(logs)

\* a push message repeated the identity of the delivery before it, and the
\* buffer holds that identity once
C2_Witness ==
  /\ hist.op = "push" /\ hist.rep
  /\ \A u \in hist.uids : Occ(logs, u) = 1

\* C3: polling the batch [a-1, a-1, a-2] into an empty buffer with nothing
\* seen leaves 2 entries, one per distinct identity.
C3_ScenarioLeavesTwoEntries ==
  [][\A st \in {ZeroStats}, ag \in {<<>>} :
       (logs = <<>> /\ seenIds = {} /\ PollOk(ScenarioBatch, st, ag))
         => (Len(logs') = 2 /\ \A u \in UidSet(ScenarioBatch) : Occ(logs', u) = 1)]_vars

\* C4: after n unique decisions were ingested one at a time, the buffer is
\* the min(n, 100) most recently ingested ones, newest first.
C4_BufferIsNewestCap ==
  LET n == Cardinality(seenIds)
  IN  /\ Len(logs) = Min(n, LogCap)
      /\ \A i \in DOMAIN logs : Uid(logs[i]) = Uid(CapDecision(n - i + 1))

\* all CapFeed decisions were ingested and the oldest ones are gone
C4_Witness ==
  /\ Cardinality(seenIds) = CapFeed
  /\ Len(logs) = LogCap
  /\ Uid(logs[1]) = Uid(CapDecision(CapFeed))
  /\ Occ(logs, Uid(CapDecision(CapFeed - LogCap))) = 0

\* C5: the buffer never holds more than 100 entries.
C5_BufferAtMostCap == Len(logs) <= LogCap

\* C6: a push or poll delivery of an identity that was admitted earlier in
\* the session adds no entry for it, whether or not its entry is still in
\* the buffer.
C6_AdmittedNeverReadmitted ==
  [][hist'.op \in {"push", "poll"}
       => \A u \in hist'.uids \cap hist.admitted : Occ(logs', u) <= Occ(logs, u)]_vars

\* the oldest decision was evicted by the cap and then delivered again
C6_Witness ==
  /\ hist.op \in {"push", "poll"}
  /\ hist.uids = {Uid(CapDecision(1))}
  /\ Uid(CapDecision(1)) \in hist.admitted
  /\ Len(logs) = LogCap
  /\ Occ(logs, Uid(CapDecision(1))) = 0

\* both equalities of a stats object
StatsConsistent(s) ==
  /\ s.halt_count = SumOver(s.violations_by_type, DOMAIN s.violations_by_type)
  /\ s.total_steps = s.halt_count + s.proceed_count

\* C7: with consistent server snapshots, the stats stay consistent under any
\* sequence of incremental push updates: halt_count is the sum of the
\* violation counts and total_steps is halt_count + proceed_count.
C7_StatsStayConsistent == stats # <<>> => StatsConsistent(stats[1])

\* a HALT without a reason and a verdict that is neither HALT nor PROCEED
\* were both counted on top of a snapshot
C7_Witness ==
  /\ hist.op = "push"
  /\ stats # <<>>
  /\ "UNKNOWN" \in DOMAIN stats[1].violations_by_type
  /\ stats[1].violations_by_type["UNKNOWN"] = 2
  /\ stats[1].proceed_count = 2

\* C8: right after a reset message the buffer and the registry are empty,
\* the stats are zero with an empty violations map, and the seen set and the
\* override set are empty.
C8_ResetClearsAll ==
  hist.op = "reset" =>
    /\ logs = <<>>
    /\ agents = <<>>
    /\ stats = <<ZeroStats>>
    /\ seenIds = {}
    /\ localHalted = {}

\* a reset that followed an admission: its expiry timer is still pending
C8_Witness == hist.op = "reset" /\ timers # {}

\* C9: handleStop(a) leaves a HALTED, and handleResume(a) leaves a with the
\* status derived from its counts: WARNING if halt_count > 2, else RUNNING.
C9_ResumeRestoresDerivedStatus ==
  [][\A a \in AgentIds :
       /\ HandleStop(a, 0)
            => \A i \in DOMAIN agents' :
                 agents'[i].agent_id = a => agents'[i].status = "HALTED"
       /\ HandleResume(a)
            => \A i \in DOMAIN agents' :
                 agents'[i].agent_id = a
                   => agents'[i].status = DerivedStatus({}, a, agents'[i].halt_count)]_vars

\* C10: an agent halted with handleStop is HALTED in the registry, whenever
\* it is present, until the override is cleared.
C10_UserHaltedStaysHalted ==
  \A i \in DOMAIN agents :
    agents[i].agent_id \in hist.userHalted => agents[i].status = "HALTED"

\* C11: every agent of the registry has the status its derivation gives:
\* HALTED when it is in the local halt override set, otherwise WARNING when
\* its halt_count exceeds 2, otherwise RUNNING.
C11_StatusIsDerived ==
  \A i \in DOMAIN agents :
     agents[i].status =
        DerivedStatus(localHalted, agents[i].agent_id, agents[i].halt_count)

\* C12: a fallback poll response that arrives while the push channel is
\* connected is not applied: the stats, the registry and the buffer are the
\* same after it as before it.
C12_NoPollResultWhilePushConnected ==
  [][(hist'.op = "poll" /\ wsConnected) => UNCHANGED <<stats, agents, logs>>]_vars

\* C13: a graph on the panel belongs to the selected agent: whenever
\* agentGraph is set, an agent is selected and the graph is that agent's.
C13_GraphBelongsToSelection ==
  agentGraph # <<>> =>
    (selectedAgent # Absent /\ agentGraph[1].agent_id = selectedAgent)

\* C19: each agent of the chain has on screen exactly the first 3 of its
\* steps, in their order, so the nodes on screen number at most 3 times the
\* distinct agents of the chain.
C19_AtMostThreePerLane ==
  ~panelEmpty =>
    LET g == agentGraph[1]
        chain == Elems(agentOrder(g, selectedAgent))
    IN  /\ \A a \in chain :
              LET drawn == SelectSeq(drawnNodes, LAMBDA n : n.agent_id = a)
                  first == Slice0(agentSteps(g, selectedAgent, a), LaneCap)
              IN  [k \in DOMAIN drawn |-> drawn[k].id] = [k \in DOMAIN first |-> first[k].id]
        /\ Len(drawnNodes) <= LaneCap * Cardinality(chain)

\* C20: the INFLUENCES edges on screen are, in order, exactly the links of
\* the response whose source node and target node are both on screen.
C20_EdgeIffBothEndpointsDrawn ==
  ~panelEmpty =>
    LET g == agentGraph[1]
        Drawn(id, a) ==
          \E k \in DOMAIN drawnNodes :
             drawnNodes[k].id = id /\ drawnNodes[k].agent_id = a
        both == SelectSeq(g.influences,
                  LAMBDA inf : /\ Drawn(inf.source, inf.source_agent)
                               /\ Drawn(inf.target, inf.target_agent))
    IN  drawnInfluences =
          [k \in DOMAIN both |->
             [from |-> both[k].source, to |-> both[k].target, type |-> "INFLUENCES"]]

\* a response with two links into the selected agent, one from the first
\* node of another lane and one from a node past that lane's third: the
\* first is drawn, the second is not
C20_Witness ==
  /\ hist.op = "graphOk" /\ ~panelEmpty
  /\ agentGraph[1].influences =
       <<Link("agent-002", MaxLane, "agent-001", 1), Link("agent-002", 1, "agent-001", 1)>>
  /\ Len(drawnInfluences) = 1
  /\ drawnInfluences[1].from = GraphNode("agent-002", 1).id

\* C14: a record without agent_id or without decision is dropped.  Pushed,
\* it leaves the buffer, the stats and the registry as they were; in a poll
\* batch it adds no malformed entry to the buffer while the well-formed
\* record of the batch, if not seen before, is admitted.
C14_MalformedIsDropped ==
  [][/\ \A d \in MalformedFeed :
          WsDecision(d) => UNCHANGED <<logs, stats, agents>>
     /\ PollOk(MixedBatch, ZeroStats, <<>>) =>
          /\ \A i \in DOMAIN logs' :
                WellFormed(logs'[i]) \/ \E j \in DOMAIN logs : logs[j] = logs'[i]
          /\ Uid(D1) \notin seenIds => \E i \in DOMAIN logs' : Uid(logs'[i]) = Uid(D1)]_vars

\* C15: an event is in the buffer at most once whatever the wire shapes it
\* was delivered in: no two entries have the same agent_id and step_id.
C15_SameEventAdmittedOnce ==
  \A i, j \in DOMAIN logs :
     (logs[i].agent_id = logs[j].agent_id /\ logs[i].step_id = logs[j].step_id)
       => i = j

\* C16: after a poll batch that admitted something, the head of the buffer
\* is the last admitted record of the batch.
C16_HeadIsLastProcessed ==
  [][\A b \in BatchesOver(IngestFeed) :
       LET newEntries == pollNewEntries(b, seenIds)
       IN  (PollOk(b, ZeroStats, <<>>) /\ Len(newEntries) > 0)
             => Uid(logs'[1]) = Uid(newEntries[Len(newEntries)])]_vars

\* C17: handleStop(a) adds a to the override set, marks a HALTED, prepends
\* one MANUAL_OVERRIDE entry and leaves its POST in flight, all in one step;
\* the POST settling, by success or by failure, changes nothing of that.
C17_HaltIsLocalWhateverThePost ==
  [][/\ \A a \in AgentIds :
          HandleStop(a, 0) =>
            /\ a \in localHalted'
            /\ \A i \in DOMAIN agents' :
                  agents'[i].agent_id = a => agents'[i].status = "HALTED"
            /\ Len(logs') = Len(logs) + 1
            /\ logs'[1].reason = "MANUAL_OVERRIDE" /\ logs'[1].agent_id = a
            /\ SubSeq(logs', 2, Len(logs')) = logs
            /\ posts' = posts + 1
     /\ hist'.op \in {"postOk", "postFail"} =>
          UNCHANGED <<agents, logs, stats, connected, haltedAgents, localHalted,
                      seenIds, timers>>]_vars

\* the POST of a halt was rejected and the agent is still halted, with its
\* manual entry in the buffer
C17_Witness ==
  /\ hist.op = "postFail" /\ posts = 0
  /\ "agent-001" \in localHalted
  /\ \E i \in DOMAIN agents : agents[i].agent_id = "agent-001" /\ agents[i].status = "HALTED"
  /\ logs # <<>> /\ logs[1].reason = "MANUAL_OVERRIDE" /\ logs[1].agent_id = "agent-001"

\* C18: a manual-override entry shares its id with no other entry of the
\* buffer, manual or delivered by the server.
C18_ManualIdsAreUnique ==
  \A i, j \in DOMAIN logs :
     (logs[i].reason = "MANUAL_OVERRIDE" /\ logs[i].id = logs[j].id) => i = j

\* C30: a firing expiry timer clears isNew only on the entries it was set
\* for: every other entry of the buffer, and the buffer's order and length,
\* are unchanged, and nothing changes when its entries are no longer there.
C30_TimerClearsItsEntryOnly ==
  [][\A t \in timers :
       TimerFire(t) =>
         /\ Len(logs') = Len(logs)
         /\ \A i \in DOMAIN logs :
              \/ logs'[i] = logs[i]
              \/ /\ Uid(logs[i]) \in t.owners
                 /\ logs'[i] = [logs[i] EXCEPT !.isNew = FALSE]]_vars

\* C21: on screen, every node of an upstream agent lies left of the selected
\* agent's nodes and every node of a downstream agent lies right of them;
\* upstream lanes among themselves, and downstream lanes among themselves,
\* follow the agents' first appearance in the influence list.
C21_UpstreamLeftDownstreamRight ==
  (~panelEmpty /\ Len(agentGraph[1].influences) > 0) =>
    LET g == agentGraph[1]
        sides == chainSides(g.influences, 1, selectedAgent, <<>>, <<>>)
        firstAt(a) ==
          CHOOSE k \in DOMAIN g.influences :
            /\ a \in {g.influences[k].source_agent, g.influences[k].target_agent}
            /\ \A j \in 1..(k - 1) :
                 a \notin {g.influences[j].source_agent, g.influences[j].target_agent}
        inOrder(side) ==
          \A n, m \in Elems(drawnNodes) :
            (n.agent_id \in Elems(side) /\ m.agent_id \in Elems(side)
               /\ firstAt(n.agent_id) < firstAt(m.agent_id)) => n.x < m.x
    IN  /\ \A n, m \in Elems(drawnNodes) :
             (n.agent_id \in Elems(sides.upstream) /\ m.isMain) => n.x < m.x
        /\ \A n, m \in Elems(drawnNodes) :
             (m.isMain /\ n.agent_id \in Elems(sides.downstream)) => m.x < n.x
        /\ inOrder(sides.upstream)
        /\ inOrder(sides.downstream)

\* C22: the upstream side of the chain is exactly the agents with a link
\* into the selected agent together with the agents with a link into one of
\* those, and the downstream side is the mirror image, however the links of
\* the response are ordered.
C22_SidesAreDirectPlusOneHop ==
  (~panelEmpty /\ Len(agentGraph[1].influences) > 0) =>
    LET sel == selectedAgent
        links == Elems(agentGraph[1].influences)
        sides == chainSides(agentGraph[1].influences, 1, sel, <<>>, <<>>)
        directUp == {l.source_agent : l \in {l \in links : l.target_agent = sel}}
        hopUp == {l.source_agent : l \in {l \in links : l.target_agent \in directUp}}
        directDown == {l.target_agent : l \in {l \in links : l.source_agent = sel}}
        hopDown == {l.target_agent : l \in {l \in links : l.source_agent \in directDown}}
    IN  /\ Elems(sides.upstream) = (directUp \cup hopUp) \ {sel}
        /\ Elems(sides.downstream) = (directDown \cup hopDown) \ {sel}

\* C23: after a failed pull, be it a poll tick or the initial bootstrap
\* fetch, either the push channel comes up or another pull request is
\* issued.
C23_FailedPullIsRetried ==
  (hist.op \in {"pollFail", "bootstrapFail"}) ~> (wsConnected \/ hist.op = "pollTick")

\* C24: outside demo mode, a close or error of the push channel leaves it
\* marked not connected; a connection attempt is made only for a closed
\* channel and ends its closed state, so each close gets one attempt; every
\* close is followed by an attempt, and every attempt opens or closes, so
\* the attempts go on until one succeeds.
C24_CloseIsFollowedByOneReconnect ==
  /\ [][(hist'.op = "wsClose" /\ ~mockMode) => (ws' = "closed" /\ ~wsConnected')]_vars
  /\ [](ws = "closed" => ~wsConnected)
  /\ [][hist'.op = "wsReconnect" => (ws = "closed" /\ ws' = "connecting")]_vars
  /\ [][(ws = "closed" /\ ws' # "closed") => hist'.op = "wsReconnect"]_vars
  /\ (ws = "closed" /\ ~mockMode) ~> (ws = "connecting")
  /\ (ws = "connecting" /\ ~mockMode) ~> (ws \in {"open", "closed"})

C24_Witness ==
  hist.op = "wsReconnect" /\ ~mockMode /\ ws = "connecting" /\ ~wsConnected

\* C25: applying the bootstrap snapshot keeps in the buffer every decision
\* that was delivered before it, and flags as new no identity that was
\* already seen.
C25_SnapshotKeepsPushedDecisions ==
  [][hist'.op = "bootstrap" =>
       /\ \A i \in DOMAIN logs :
            Uid(logs[i]) \in seenIds => Occ(logs', Uid(logs[i])) > 0
       /\ \A k \in DOMAIN logs' :
            (Uid(logs'[k]) \in seenIds /\ logs'[k].isNew) =>
              \E i \in DOMAIN logs : Uid(logs[i]) = Uid(logs'[k]) /\ logs[i].isNew]_vars

\* the aggregate of a set of decisions: how many, how many HALTs, how many
\* others, and the HALTs per reason
RefAggregate(S) ==
  LET halts == {d \in S : d.decision = "HALT"}
  IN  [total_steps |-> Cardinality(S),
       halt_count |-> Cardinality(halts),
       proceed_count |-> Cardinality(S \ halts),
       violations_by_type |->
         [r \in {ReasonOf(d) : d \in halts} |->
            Cardinality({d \in halts : ReasonOf(d) = r})]]

\* C26: the stats built up by the push path from nothing are the aggregate
\* of the set of decisions admitted so far, whatever their order of arrival
\* and however often each was delivered again.
C26_IncrementalEqualsAggregate ==
  stats # <<>> => stats[1] = RefAggregate({d \in PushFeed : Uid(d) \in seenIds})

\* all five decisions are in, and the last delivery was a repeated one
C26_Witness ==
  /\ hist.op = "push" /\ hist.rep
  /\ seenIds = {Uid(d) : d \in PushFeed}
  /\ stats # <<>> /\ stats[1].total_steps = 5
  /\ stats[1].violations_by_type["POLICY_VIOLATION"] = 2

\* some entry of identity u is flagged new
FlaggedNew(buf, u) == \E i \in DOMAIN buf : Uid(buf[i]) = u /\ buf[i].isNew

\* C27: an identity becomes flagged new only in the step that first admits
\* it to the seen set; a step on an identity already seen (a duplicate
\* delivery, a snapshot, a timer) never turns its flag on.  The seen set only
\* grows until a reset, so that is at most once per identity.
C27_FlaggedNewOnlyOnFirstAdmission ==
  [][/\ \A i \in DOMAIN logs' :
          LET u == Uid(logs'[i])
          IN  (FlaggedNew(logs', u) /\ ~FlaggedNew(logs, u))
                => (u \notin seenIds /\ u \in seenIds')
      /\ (hist'.op # "reset" => seenIds \subseteq seenIds')]_vars

\* an identity whose flag had expired was delivered again, and is still not
\* flagged
C27_Witness ==
  /\ hist.op \in {"push", "poll"} /\ hist.rep
  /\ timers = {}
  /\ \A u \in hist.uids : Occ(logs, u) = 1 /\ ~FlaggedNew(logs, u)

\* C28: a push decision of a new identity adds 1 to its agent's total_steps
\* and 1 to its halt_count exactly when it is a HALT, keeping the row's
\* place and status; an agent not in the registry is appended with those
\* counts and status RUNNING; every other row is the same after as before;
\* a decision of a seen identity leaves the registry as it is.
C28_PushDecisionTouchesOneAgent ==
  [][\A d \in PushFeed :
       WsDecision(d) =>
         LET a == d.agent_id
             h == IF d.decision = "HALT" THEN 1 ELSE 0
         IN  IF Uid(d) \in seenIds THEN agents' = agents
             ELSE IF a \in AgentIdsOf(agents)
             THEN /\ Len(agents') = Len(agents)
                  /\ \A i \in DOMAIN agents :
                       IF agents[i].agent_id = a
                       THEN /\ agents'[i].agent_id = a
                            /\ agents'[i].total_steps = agents[i].total_steps + 1
                            /\ agents'[i].halt_count = agents[i].halt_count + h
                            /\ agents'[i].status = agents[i].status
                       ELSE agents'[i] = agents[i]
             ELSE /\ Len(agents') = Len(agents) + 1
                  /\ \A i \in DOMAIN agents : agents'[i] = agents[i]
                  /\ agents'[Len(agents')].agent_id = a
                  /\ agents'[Len(agents')].total_steps = 1
                  /\ agents'[Len(agents')].halt_count = h
                  /\ agents'[Len(agents')].status = "RUNNING"]_vars

\* all five decisions were counted, on rows created by a PROCEED and by a
\* HALT, and the last delivery was a repeated one
C28_Witness ==
  /\ hist.op = "push" /\ hist.rep
  /\ Len(agents) = 3
  /\ \E i \in DOMAIN agents :
       /\ agents[i].agent_id = "agent-001"
       /\ agents[i].total_steps = 2 /\ agents[i].halt_count = 1
  /\ \E i \in DOMAIN agents :
       /\ agents[i].agent_id = "agent-002"
       /\ agents[i].total_steps = 2 /\ agents[i].halt_count = 1

\* C29: except on a reset, no step lowers the total_steps or the halt_count
\* that the registry holds for an agent.
C29_RegistryCountersNeverDecrease ==
  [][hist'.op # "reset" =>
       \A i \in DOMAIN agents, j \in DOMAIN agents' :
          agents'[j].agent_id = agents[i].agent_id =>
            /\ agents'[j].total_steps >= agents[i].total_steps
            /\ agents'[j].halt_count >= agents[i].halt_count]_vars

\* C31: an identity that is flagged new in the buffer is later not flagged
\* new, because its flag was cleared or because its entry left the buffer.
C31_NewFlagExpires ==
  \A u \in ExpireIds : FlaggedNew(logs, u) ~> ~FlaggedNew(logs, u)

\* the last pending timer has fired, and the manual entry, a pushed or
\* polled entry without an id and nothing else in the buffer is flagged new
C31_Witness ==
  /\ hist.op = "timer" /\ timers = {}
  /\ \E i \in DOMAIN logs : logs[i].id = manualId("agent-001", 0)
  /\ \E i \in DOMAIN logs : Uid(logs[i]) = Uid(D3)
  /\ \A i \in DOMAIN logs : ~logs[i].isNew

\* C32: the NEXT edges on screen join, in order, each node on screen of the
\* selected agent's lane to the node after it in that lane, and nothing
\* else: one edge fewer than the lane has nodes, and no endpoint in another
\* agent's lane.
C32_NextEdgesChainSelectedLane ==
  ~panelEmpty =>
    LET lane == Slice0(agentSteps(agentGraph[1], selectedAgent, selectedAgent), LaneCap)
    IN  /\ [k \in DOMAIN drawnNext |-> <<drawnNext[k].from.id, drawnNext[k].to.id>>]
             = [k \in 1..(Len(lane) - 1) |-> <<lane[k].id, lane[k + 1].id>>]
        /\ \A k \in DOMAIN drawnNext :
             /\ drawnNext[k].from.agent_id = selectedAgent
             /\ drawnNext[k].to.agent_id = selectedAgent

\* C33: the classification loop, once started, ends, whatever the list
\* (links in both directions, self-links); each of its steps moves to the
\* next link, so it ends after one visit per link, and it ends with the
\* sets the builder uses.
C33_ClassificationTerminates ==
  /\ (render.pc = "loop") ~> (render.pc = "done")
  /\ [][hist'.op = "renderStep" => render'.i = render.i + 1]_vars
  /\ [](render.pc = "done" =>
          /\ render.i = Len(renderInfluences) + 1
          /\ [upstream |-> render.upstream, downstream |-> render.downstream]
               = chainSides(renderInfluences, 1, render.selectedAgent, <<>>, <<>>))

\* the loop ended on a list with a self-link and links in both directions
\* with another agent, which it put on both sides
C33_Witness ==
  /\ render.pc = "done"
  /\ \E k \in DOMAIN renderInfluences :
        renderInfluences[k].source_agent = renderInfluences[k].target_agent
  /\ "agent-002" \in Elems(render.upstream) \cap Elems(render.downstream)
  /\ render.selectedAgent \in Elems(render.upstream)

\* C34: a fallback poll one of whose fetches is rejected clears the
\* connected flag and changes nothing else: the buffer, the registry, the
\* stats, the seen set, both halt sets, the pending timers and the channel
\* flags are the same after it as before it.
C34_FailedPollOnlyClearsConnected ==
  [][hist'.op = "pollFail" =>
       /\ ~connected'
       /\ UNCHANGED <<logs, agents, stats, seenIds, localHalted, haltedAgents,
                      timers, mockMode, wsConnected, ws, boot, panel, posts>>]_vars

\* a poll failed after a snapshot and a push had filled the buffer and the stats
C34_Witness ==
  /\ hist.op = "pollFail" /\ ~connected
  /\ Len(logs) = 2 /\ stats # <<>> /\ stats[1].total_steps > 0
  /\ timers # {}

\* C35: with decisions arriving by push only, from the start or from a
\* reset on, total_steps is the size of the seen set in every state; a
\* delivery of a seen identity leaves the stats as they are, and a delivery
\* of a new one adds exactly 1 to total_steps.
C35_TotalStepsIsSeenCount ==
  /\ [](IF stats = <<>> THEN seenIds = {}
        ELSE stats[1].total_steps = Cardinality(seenIds))
  /\ [][\A d \in PushFeed :
          WsDecision(d) =>
            IF Uid(d) \in seenIds THEN stats' = stats
            ELSE /\ stats' # <<>>
                 /\ stats'[1].total_steps = Cardinality(seenIds) + 1]_vars

\* a repeated push after a reset: more timers are pending than the buffer
\* has entries, which only the emptying of the buffer by a reset brings
\* about, and two decisions were counted since
C35_Witness ==
  /\ hist.op = "push" /\ hist.rep
  /\ Cardinality(timers) > Len(logs)
  /\ stats = <<RefAggregate({d \in PushFeed : Uid(d) \in seenIds})>>
  /\ Cardinality(seenIds) = 2

\* C36: no decision of the backend is counted twice: the total_steps on
\* display never exceeds the number of decisions the backend has generated.
C36_NoDecisionCountedTwice ==
  stats # <<>> => stats[1].total_steps <= Cardinality(Generated)

\* C37: once demo mode has been entered, and the push effect with it
\* cleaned up, no connection attempt is made, no socket opens and no push
\* message is applied.
C37_NoPushAfterCleanup ==
  [][mockMode =>
       hist'.op \notin {"wsReconnect", "wsOpen", "push", "agentStatus", "reset"}]_vars

\* C38: the halted set used for display and the override set used for
\* deriving statuses hold the same agent ids in every state.
C38_HaltSetsAgree == haltedAgents = localHalted

\* C39: on screen each agent has at most one lane and each node id appears
\* at most once, whatever the influence list (cyclic or self-influence
\* included).
C39_OneLanePerAgentOneNodePerId ==
  ~panelEmpty =>
    LET order == agentOrder(agentGraph[1], selectedAgent)
    IN  /\ \A i, j \in DOMAIN order : order[i] = order[j] => i = j
        /\ \A i, j \in DOMAIN drawnNodes : drawnNodes[i].id = drawnNodes[j].id => i = j

\* C40: a push frame that is not JSON, carries a tag outside decision,
\* policy_update, agent_status and reset, or is a decision, policy_update or
\* agent_status frame without data, leaves the buffer, the registry, the
\* stats, the seen identities and the override set as they were and leaves
\* the push channel open.
C40_OddFrameChangesNothing ==
  [][hist'.op = "oddFrame" =>
       /\ UNCHANGED <<logs, agents, stats, seenIds, localHalted>>
       /\ ws' = "open"
       /\ wsConnected' = wsConnected]_vars

C40_Witness ==
  /\ hist.op = "oddFrame"
  /\ logs # <<>>
  /\ seenIds # {}
  /\ localHalted # {}
  /\ wsConnected

====
